---- MODULE Spec2Model ----
(***************************************************************************)
(* The event dispatch and lifecycle engine of CloudBot                     *)
(* (cloudbot/core/bot.py): run(), main_loop(), stop() and restart() on one *)
(* cooperative asyncio event loop.  One step of the model is what one      *)
(* callback of the event loop does between two suspension points; stop()   *)
(* has no suspension point and is one step.                                *)
(***************************************************************************)
EXTENDS Integers, Sequences, FiniteSets, TLC

\* ------------------------------------------------------------------ bounds
MaxEvents == 2      \* events the connections enqueue in one behaviour
MaxStops == 2       \* calls of stop() (directly, by restart, by a handler)
NumConns == 2       \* connections configured in config['connections']

Conns == 1..NumConns
EventIds == 1..MaxEvents

\* Python's None for the optional reason; the other reasons are strings.
None == "None"
Reasons == {None, "", "bye"}

\* What stop() puts into the queue: a value no connection produces.
StopIteration == [conn |-> 0, id |-> 0]

VARIABLES
    running,          \* self.running
    do_restart,       \* self.do_restart
    queued_messages,  \* self.queued_messages: the items waiting, oldest first
    message,          \* result of the future main_loop waits on in get(): <<>> or <<item>>
    pc,               \* where run() / main_loop() is
    loader,           \* state of self.loader (the plugin reloader)
    connst,           \* per connection: state of its connect() coroutine
    connected,        \* per connection: connection.connected
    connlog,          \* per connection: the calls stop() made on it, in order
    dispatched,       \* the messages process() was started for, in order
    task,             \* per event id: state of the task running process()
    h_enq,            \* history: number of events enqueued so far
    h_deq,            \* history: the items taken out of the queue, in order
    h_stops,          \* history: number of calls of stop()
    h_enqAtStop,      \* history: h_enq at the first call of stop()
    h_stopInLoad,     \* history: stop() was called before load_all completed
    config,           \* self.config['connections']: the configured names
    connections,      \* self.connections: the name of each BotConnection
    singlethread_hook_futures  \* the events whose singlethread handler runs

vars == <<running, do_restart, queued_messages, message, pc, loader, connst,
          connected, connlog, dispatched, task, h_enq, h_deq, h_stops,
          h_enqAtStop, h_stopInLoad, config, connections,
                   singlethread_hook_futures>>

\* ------------------------------------------------- connection names
\* A name is a sequence of characters.  The characters stand for the classes
\* clean_name tells apart: a letter, the underscore, the space and a
\* character outside [A-Za-z0-9_ ].
MaxNameLen == 2     \* length of the configured names drawn

Alphabet == {"a", "_", " ", "!"}

\* The names the spec gives as examples: "My Network!", "My Network" and
\* "My_Network!".
MyNetworkBang == <<"M", "y", " ", "N", "e", "t", "w", "o", "r", "k", "!">>
MyNetwork == <<"M", "y", " ", "N", "e", "t", "w", "o", "r", "k">>
My_NetworkBang == <<"M", "y", "_", "N", "e", "t", "w", "o", "r", "k", "!">>
My_Network == <<"M", "y", "_", "N", "e", "t", "w", "o", "r", "k">>

Names ==
    UNION {[1..k -> Alphabet] : k \in 0..MaxNameLen}
        \cup {MyNetworkBang, MyNetwork, My_NetworkBang}

\* [A-Za-z0-9_]
WordChars == {"a", "_", "M", "y", "N", "e", "t", "w", "o", "r", "k"}

\* n.replace(" ", "_"): every space becomes an underscore.
str_replace(n) == [i \in 1..Len(n) |-> IF n[i] = " " THEN "_" ELSE n[i]]

RECURSIVE re_sub(_), SkipRun(_)

\* The rest of s after the run of characters outside [A-Za-z0-9_] it starts
\* with: what one match of '[^A-Za-z0-9_]+' consumes.
SkipRun(s) ==
    IF s = <<>> \/ Head(s) \in WordChars THEN s ELSE SkipRun(Tail(s))

\* re.sub('[^A-Za-z0-9_]+', '', s): every match is replaced by nothing.
re_sub(s) ==
    IF s = <<>> THEN <<>>
    ELSE IF Head(s) \in WordChars
         THEN <<Head(s)>> \o re_sub(Tail(s))
         ELSE re_sub(SkipRun(s))

clean_name_noreplace(n) == re_sub(n)

clean_name(n) == re_sub(str_replace(n))

\* create_connections(): one BotConnection per configured connection, in
\* order, named clean_name(conf['name']); no name is compared with another.
create_connections(conf) == [i \in DOMAIN conf |-> clean_name(conf[i])]

\* A configuration whose names give distinct connection names.
DefaultConfig == [c \in Conns |-> <<"a">> \o [i \in 1..c |-> "_"]]

\* The configurations drawn: a name for every connection.
Configs == [Conns -> Names]

\* ------------------------------------------------------------- __init__
\* The fields __init__ sets before it calls create_connections.
InitFields ==
    /\ running = TRUE
    /\ do_restart = FALSE
    /\ queued_messages = <<>>
    /\ message = <<>>
    /\ loader = "new"
    /\ connst = [c \in Conns |-> "idle"]
    /\ connected = [c \in Conns |-> FALSE]
    /\ connlog = [c \in Conns |-> <<>>]
    /\ dispatched = <<>>
    /\ task = [e \in EventIds |-> "none"]
    /\ h_enq = 0
    /\ h_deq = <<>>
    /\ h_stops = 0
    /\ h_enqAtStop = 0
    /\ h_stopInLoad = FALSE
    /\ singlethread_hook_futures = {}

\* The bot as constructed, for one configuration of distinct names.
Init ==
    /\ InitFields
    /\ pc = "new"
    /\ config = DefaultConfig
    /\ connections = create_connections(config)

\* The event loop runs callbacks from run_until_complete() until main_loop()
\* has finished and run_until_complete() has returned or raised.
LoopRuns == pc \in {"load", "gather", "get", "got", "done", "raised"}

\* ------------------------------------------------------- asyncio.Queue
\* Queue.put_nowait(item): with main_loop suspended in get() the item goes
\* straight to the waiting getter's future, which resumes main_loop in a later
\* iteration of the event loop; otherwise the item is appended to the queue.
put_nowait(item) ==
    IF pc = "get"
    THEN /\ message' = <<item>>
         /\ pc' = "got"
         /\ h_deq' = Append(h_deq, item)
         /\ UNCHANGED queued_messages
    ELSE /\ queued_messages' = Append(queued_messages, item)
         /\ UNCHANGED <<message, pc, h_deq>>

Queue_get_lifo(q) == [item |-> q[Len(q)], rest |-> SubSeq(q, 1, Len(q) - 1)]

\* Queue.get() on a non-empty queue: the oldest item, without suspending.
Queue_get(q) == [item |-> Head(q), rest |-> Tail(q)]

\* ------------------------------------------------------------ main_loop
process_async_twice(d, m) == Append(Append(d, m), m)

\* asyncio.async(process(self, message)): a task is created for the message
\* and main_loop goes on without waiting for it.
process_async(d, m) == Append(d, m)

\* The while loop of main_loop from one resumption to its next suspension or
\* its return.  q is the queue, d the messages dispatched, dq the items taken
\* from the queue.  WhileRunning starts at the loop's head, AfterGet right
\* after get() has returned message m.
RECURSIVE WhileRunning(_, _, _), AfterGet(_, _, _, _)

AfterGet_nocheck(m, q, d, dq) == WhileRunning(q, process_async(d, m), dq)

AfterGet(m, q, d, dq) ==
    IF ~running
    THEN [pc |-> "done", q |-> q, d |-> d, dq |-> dq]
    ELSE WhileRunning(q, process_async(d, m), dq)

WhileRunning(q, d, dq) ==
    IF ~running
    THEN [pc |-> "done", q |-> q, d |-> d, dq |-> dq]
    ELSE IF q = <<>>
         THEN [pc |-> "get", q |-> q, d |-> d, dq |-> dq]
         ELSE LET g == Queue_get(q)
              IN  AfterGet(g.item, g.rest, d, Append(dq, g.item))

Suspend_awaiting(r) ==
    /\ pc' = IF Len(r.d) > Len(dispatched) THEN "await" ELSE r.pc
    /\ queued_messages' = r.q
    /\ dispatched' = r.d
    /\ h_deq' = r.dq
    /\ task' = [e \in EventIds |->
                  IF \E i \in (Len(dispatched) + 1)..Len(r.d) : r.d[i].id = e
                  THEN "running" ELSE task[e]]

\* The state after main_loop ran to r: every message newly dispatched has a
\* task.
Suspend(r) ==
    /\ pc' = r.pc
    /\ queued_messages' = r.q
    /\ dispatched' = r.d
    /\ h_deq' = r.dq
    /\ task' = [e \in EventIds |->
                  IF \E i \in (Len(dispatched) + 1)..Len(r.d) : r.d[i].id = e
                  THEN "running" ELSE task[e]]

Run_resetting ==
    /\ pc = "new"
    /\ pc' = "load"
    /\ running' = TRUE
    /\ UNCHANGED <<do_restart, queued_messages, message, loader, connst,
                   connected, connlog, dispatched, task, h_enq, h_deq,
                   h_stops, h_enqAtStop, h_stopInLoad, config, connections,
                   singlethread_hook_futures>>

\* run(): run_until_complete(main_loop()) starts main_loop, which suspends in
\* plugin_manager.load_all.
Run ==
    /\ pc = "new"
    /\ pc' = "load"
    /\ UNCHANGED <<running, do_restart, queued_messages, message, loader,
                   connst, connected, connlog, dispatched, task, h_enq, h_deq,
                   h_stops, h_enqAtStop, h_stopInLoad, config, connections,
                   singlethread_hook_futures>>

AfterLoad_nocheck(r) == "gather"

\* The check of self.running right after load_all: where main_loop goes.
AfterLoad(r) == IF ~r THEN "done" ELSE "gather"

\* load_all completes: main_loop returns if stopped, else starts the plugin
\* reloader, calls connect() of every connection and suspends in gather.
LoadAllDone ==
    /\ pc = "load"
    /\ pc' = AfterLoad(running)
    /\ IF pc' = "done"
       THEN UNCHANGED <<loader, connst>>
       ELSE /\ loader' = "started"
            /\ connst' = [c \in Conns |-> "connecting"]
    /\ UNCHANGED <<running, do_restart, queued_messages, message, connected,
                   connlog, dispatched, task, h_enq, h_deq, h_stops,
                   h_enqAtStop, h_stopInLoad, config, connections,
                   singlethread_hook_futures>>

\* connection.connect() completes: the connection is live.
ConnectDone(c) ==
    /\ LoopRuns
    /\ connst[c] = "connecting"
    /\ connst' = [connst EXCEPT ![c] = "connected"]
    /\ connected' = [connected EXCEPT ![c] = TRUE]
    /\ UNCHANGED <<running, do_restart, queued_messages, message, pc, loader,
                   connlog, dispatched, task, h_enq, h_deq, h_stops,
                   h_enqAtStop, h_stopInLoad, config, connections,
                   singlethread_hook_futures>>

\* connection.connect() raises.
ConnectFail(c) ==
    /\ LoopRuns
    /\ connst[c] = "connecting"
    /\ connst' = [connst EXCEPT ![c] = "failed"]
    /\ UNCHANGED <<running, do_restart, queued_messages, message, pc, loader,
                   connected, connlog, dispatched, task, h_enq, h_deq, h_stops,
                   h_enqAtStop, h_stopInLoad, config, connections,
                   singlethread_hook_futures>>

GatherComplete_first == \E c \in Conns : connst[c] = "connected"

\* The future of asyncio.gather(*[conn.connect() ...]) has its result: every
\* connect() has returned.
GatherComplete == \A c \in Conns : connst[c] = "connected"

\* asyncio.gather(...) without return_exceptions: its future completes when
\* every connect() has returned ...
GatherDone ==
    /\ pc = "gather"
    /\ GatherComplete
    /\ Suspend(WhileRunning(queued_messages, dispatched, h_deq))
    /\ UNCHANGED <<running, do_restart, message, loader, connst, connected,
                   connlog, h_enq, h_stops, h_enqAtStop, h_stopInLoad, config, connections,
                   singlethread_hook_futures>>

\* ... and raises in main_loop the exception of the first connect() that
\* raised, whatever the other connect() calls are doing.
GatherRaise ==
    /\ pc = "gather"
    /\ \E c \in Conns : connst[c] = "failed"
    /\ pc' = "raised"
    /\ UNCHANGED <<running, do_restart, queued_messages, message, loader,
                   connst, connected, connlog, dispatched, task, h_enq, h_deq,
                   h_stops, h_enqAtStop, h_stopInLoad, config, connections,
                   singlethread_hook_futures>>

\* main_loop resumes from get() with the message its future was given.
GetDone ==
    /\ pc = "got"
    /\ message' = <<>>
    /\ Suspend(AfterGet(message[1], queued_messages, dispatched, h_deq))
    /\ UNCHANGED <<running, do_restart, loader, connst, connected, connlog,
                   h_enq, h_stops, h_enqAtStop, h_stopInLoad, config, connections,
                   singlethread_hook_futures>>

\* A connection puts a parsed line into the shared queue.
Enqueue(c) ==
    /\ pc \notin {"closed", "error"}
    /\ h_enq < MaxEvents
    /\ h_enq' = h_enq + 1
    /\ put_nowait([conn |-> c, id |-> h_enq + 1])
    /\ UNCHANGED <<running, do_restart, loader, connst, connected, connlog,
                   dispatched, task, h_stops, h_enqAtStop, h_stopInLoad, config, connections,
                   singlethread_hook_futures>>

\* ----------------------------------------------------------------- stop
\* connection.cmd("QUIT", [reason]) if reason else connection.cmd("QUIT"):
\* Python's truth test, so None and the empty string both give no parameter.
QuitCmd(reason) ==
    IF reason # None /\ reason # ""
    THEN [op |-> "QUIT", params |-> <<reason>>]
    ELSE [op |-> "QUIT", params |-> <<>>]

StopCall == [op |-> "stop", params |-> <<>>]

CloseCalls_unchecked(c, reason) == <<QuitCmd(reason), StopCall>>

\* One pass of stop()'s loop over self.connections: what it calls on
\* connection c.
CloseCalls(c, reason) ==
    IF ~connected[c] THEN <<>> ELSE <<QuitCmd(reason), StopCall>>

\* connection.stop(): the connection is no longer live.
connection_stop(c) == FALSE

stop_cancelling(reason) ==
    /\ loader' = "stopped"
    /\ connlog' = [c \in Conns |-> connlog[c] \o CloseCalls(c, reason)]
    /\ connected' = [c \in Conns |->
                       IF CloseCalls(c, reason) # <<>>
                       THEN connection_stop(c) ELSE connected[c]]
    /\ running' = FALSE
    /\ put_nowait(StopIteration)
    /\ task' = [e \in EventIds |->
                  IF task[e] = "running" THEN "cancelled" ELSE task[e]]
    /\ h_stops' = h_stops + 1
    /\ h_enqAtStop' = IF h_stops = 0 THEN h_enq ELSE h_enqAtStop
    /\ h_stopInLoad' = (h_stopInLoad \/ pc \in {"new", "load"})
    /\ UNCHANGED <<config, connections, singlethread_hook_futures, connst, dispatched, h_enq>>

stop_nosentinel(reason) ==
    /\ loader' = "stopped"
    /\ connlog' = [c \in Conns |-> connlog[c] \o CloseCalls(c, reason)]
    /\ connected' = [c \in Conns |->
                       IF CloseCalls(c, reason) # <<>>
                       THEN connection_stop(c) ELSE connected[c]]
    /\ running' = FALSE
    /\ h_stops' = h_stops + 1
    /\ h_enqAtStop' = IF h_stops = 0 THEN h_enq ELSE h_enqAtStop
    /\ h_stopInLoad' = (h_stopInLoad \/ pc \in {"new", "load"})
    /\ UNCHANGED <<config, connections, singlethread_hook_futures, connst, dispatched, task, h_enq,
                   queued_messages, message, pc, h_deq>>

stop_stillrunning(reason) ==
    /\ loader' = "stopped"
    /\ connlog' = [c \in Conns |-> connlog[c] \o CloseCalls(c, reason)]
    /\ connected' = [c \in Conns |->
                       IF CloseCalls(c, reason) # <<>>
                       THEN connection_stop(c) ELSE connected[c]]
    /\ running' = running
    /\ put_nowait(StopIteration)
    /\ h_stops' = h_stops + 1
    /\ h_enqAtStop' = IF h_stops = 0 THEN h_enq ELSE h_enqAtStop
    /\ h_stopInLoad' = (h_stopInLoad \/ pc \in {"new", "load"})
    /\ UNCHANGED <<config, connections, singlethread_hook_futures, connst, dispatched, task, h_enq>>

stop_keeploader(reason) ==
    /\ loader' = loader
    /\ connlog' = [c \in Conns |-> connlog[c] \o CloseCalls(c, reason)]
    /\ connected' = [c \in Conns |->
                       IF CloseCalls(c, reason) # <<>>
                       THEN connection_stop(c) ELSE connected[c]]
    /\ running' = FALSE
    /\ put_nowait(StopIteration)
    /\ h_stops' = h_stops + 1
    /\ h_enqAtStop' = IF h_stops = 0 THEN h_enq ELSE h_enqAtStop
    /\ h_stopInLoad' = (h_stopInLoad \/ pc \in {"new", "load"})
    /\ UNCHANGED <<config, connections, singlethread_hook_futures, connst, dispatched, task, h_enq>>

\* stop(reason): stops the plugin reloader, closes every connected
\* connection, clears running and puts StopIteration into the queue.  It
\* suspends nowhere.
stop(reason) ==
    /\ loader' = "stopped"
    /\ connlog' = [c \in Conns |-> connlog[c] \o CloseCalls(c, reason)]
    /\ connected' = [c \in Conns |->
                       IF CloseCalls(c, reason) # <<>>
                       THEN connection_stop(c) ELSE connected[c]]
    /\ running' = FALSE
    /\ put_nowait(StopIteration)
    /\ h_stops' = h_stops + 1
    /\ h_enqAtStop' = IF h_stops = 0 THEN h_enq ELSE h_enqAtStop
    /\ h_stopInLoad' = (h_stopInLoad \/ pc \in {"new", "load"})
    /\ UNCHANGED <<config, connections, singlethread_hook_futures, connst, dispatched, task, h_enq>>

\* stop() called from outside the handlers (a signal, the embedding script).
Stop(reason) ==
    /\ h_stops < MaxStops
    /\ stop(reason)
    /\ UNCHANGED do_restart

Restart_nostop(reason) ==
    /\ h_stops < MaxStops
    /\ do_restart' = TRUE
    /\ UNCHANGED <<running, queued_messages, message, pc, loader, connst,
                   connected, connlog, dispatched, task, h_enq, h_deq,
                   h_stops, h_enqAtStop, h_stopInLoad, config, connections,
                   singlethread_hook_futures>>

\* restart(reason)
Restart(reason) ==
    /\ h_stops < MaxStops
    /\ do_restart' = TRUE
    /\ stop(reason)

\* --------------------------------------------------------- handler tasks
\* The key (connection, handler) of the invocation for event e, for the one
\* handler that is marked singlethread.
KeyOf(e) == (CHOOSE m \in {dispatched[i] : i \in DOMAIN dispatched} : m.id = e).conn

HookBusy_never(k) == FALSE

\* An invocation is outstanding for key k.
HookBusy(k) == \E f \in singlethread_hook_futures : KeyOf(f) = k

\* The task of event e comes to a singlethread handler: with an invocation
\* outstanding for its key the new one is dropped, else it is registered
\* and runs.
HookStart(e) ==
    /\ LoopRuns
    /\ task[e] = "running"
    /\ e \notin singlethread_hook_futures
    /\ IF HookBusy(KeyOf(e))
       THEN /\ task' = [task EXCEPT ![e] = "dropped"]
            /\ UNCHANGED singlethread_hook_futures
       ELSE /\ singlethread_hook_futures' = singlethread_hook_futures \cup {e}
            /\ UNCHANGED task
    /\ UNCHANGED <<running, do_restart, queued_messages, message, pc, loader,
                   connst, connected, connlog, dispatched, h_enq, h_deq,
                   h_stops, h_enqAtStop, h_stopInLoad, config, connections>>

\* The task of event e runs process() to its end.
TaskDone(e) ==
    /\ LoopRuns
    /\ task[e] = "running"
    /\ task' = [task EXCEPT ![e] = "done"]
    /\ singlethread_hook_futures' = singlethread_hook_futures \ {e}
    /\ UNCHANGED <<running, do_restart, queued_messages, message, pc, loader,
                   connst, connected, connlog, dispatched, h_enq, h_deq,
                   h_stops, h_enqAtStop, h_stopInLoad, config, connections>>

OnTaskException_awaited(p) == "raised"

\* Where main_loop is after the task it created with asyncio.async raised:
\* main_loop never waits for the task, the exception stays in the task.
OnTaskException(p) == p

\* The task of event e ends with an exception.
TaskFail(e) ==
    /\ LoopRuns
    /\ task[e] = "running"
    /\ task' = [task EXCEPT ![e] = "failed"]
    /\ pc' = OnTaskException(pc)
    /\ singlethread_hook_futures' = singlethread_hook_futures \ {e}
    /\ UNCHANGED <<running, do_restart, queued_messages, message, loader,
                   connst, connected, connlog, dispatched, h_enq, h_deq,
                   h_stops, h_enqAtStop, h_stopInLoad, config, connections>>

\* A handler running in the task of event e calls bot.stop(reason).
HandlerStop(e, reason) ==
    /\ LoopRuns
    /\ task[e] = "running"
    /\ h_stops < MaxStops
    /\ stop(reason)
    /\ UNCHANGED do_restart

\* ------------------------------------------------------------ run, end
\* main_loop returned: run_until_complete returns and run() closes the loop.
\* Nothing scheduled on the loop runs after that.
RunReturn ==
    /\ pc = "done"
    /\ pc' = "closed"
    /\ UNCHANGED <<running, do_restart, queued_messages, message, loader,
                   connst, connected, connlog, dispatched, task, h_enq, h_deq,
                   h_stops, h_enqAtStop, h_stopInLoad, config, connections,
                   singlethread_hook_futures>>

\* main_loop raised: run_until_complete raises it out of run().
RunRaise ==
    /\ pc = "raised"
    /\ pc' = "error"
    /\ UNCHANGED <<running, do_restart, queued_messages, message, loader,
                   connst, connected, connlog, dispatched, task, h_enq, h_deq,
                   h_stops, h_enqAtStop, h_stopInLoad, config, connections,
                   singlethread_hook_futures>>

Next ==
    \/ Run
    \/ LoadAllDone
    \/ \E c \in Conns : ConnectDone(c)
    \/ \E c \in Conns : ConnectFail(c)
    \/ GatherDone
    \/ GatherRaise
    \/ GetDone
    \/ \E c \in Conns : Enqueue(c)
    \/ \E r \in Reasons : Stop(r)
    \/ \E r \in Reasons : Restart(r)
    \/ \E e \in EventIds : HookStart(e)
    \/ \E e \in EventIds : TaskDone(e)
    \/ \E e \in EventIds : TaskFail(e)
    \/ \E e \in EventIds, r \in Reasons : HandlerStop(e, r)
    \/ RunReturn
    \/ RunRaise

Spec == Init /\ [][Next]_vars

\* The event loop runs every callback that is ready: main_loop is resumed when
\* what it waits for has completed, and load_all and every connect() complete.
FairSpec ==
    /\ Spec
    /\ WF_vars(LoadAllDone)
    /\ \A c \in Conns : WF_vars(ConnectDone(c) \/ ConnectFail(c))
    /\ WF_vars(GatherDone)
    /\ WF_vars(GatherRaise)
    /\ WF_vars(GetDone)
    /\ WF_vars(RunReturn)
    /\ WF_vars(RunRaise)

\* The steps of Next with the inputs that do not influence the control flow
\* fixed: the reason of stop() only decides the parameter of QUIT, and
\* restart() differs from stop() only in do_restart.
LiveNext ==
    \/ Run
    \/ LoadAllDone
    \/ \E c \in Conns : ConnectDone(c)
    \/ \E c \in Conns : ConnectFail(c)
    \/ GatherDone
    \/ GatherRaise
    \/ GetDone
    \/ \E c \in Conns : Enqueue(c)
    \/ Stop(None)
    \/ \E e \in EventIds : HookStart(e)
    \/ \E e \in EventIds : TaskDone(e)
    \/ \E e \in EventIds : TaskFail(e)
    \/ \E e \in EventIds : HandlerStop(e, None)
    \/ RunReturn
    \/ RunRaise

\* LiveNext under the fairness of FairSpec: the event loop runs every ready
\* callback, load_all and every connect() complete, and nothing is assumed
\* of the handler tasks.
LiveSpec ==
    /\ Init /\ [][LiveNext]_vars
    /\ WF_vars(LoadAllDone)
    /\ \A c \in Conns : WF_vars(ConnectDone(c) \/ ConnectFail(c))
    /\ WF_vars(GatherDone)
    /\ WF_vars(GatherRaise)
    /\ WF_vars(GetDone)
    /\ WF_vars(RunReturn)
    /\ WF_vars(RunRaise)

\* ------------------------------------------------ construction, names
\* __init__ up to the call of create_connections, for any configuration.
NameInit ==
    /\ InitFields
    /\ pc = "init"
    /\ config \in Configs
    /\ connections = <<>>

\* __init__ calls create_connections and completes.
CreateConnections ==
    /\ pc = "init"
    /\ pc' = "new"
    /\ connections' = create_connections(config)
    /\ UNCHANGED <<running, do_restart, queued_messages, message, loader,
                   connst, connected, connlog, dispatched, task, h_enq, h_deq,
                   h_stops, h_enqAtStop, h_stopInLoad, config,
                   singlethread_hook_futures>>

NameSpec == NameInit /\ [][CreateConnections]_vars

\* =============================================================== claims
\* The events enqueued before the first call of stop().
EnqueuedBeforeStop == 1..h_enqAtStop

TimesDispatched(id) == Cardinality({i \in DOMAIN dispatched : dispatched[i].id = id})

\* C1: once stop() has set running to false no further process task is
\* created, so an event enqueued after stop() is never dispatched.
C1_NoProcessingAfterStop == [][~running => dispatched' = dispatched]_vars

C1_Witness ==
    /\ ~running
    /\ pc = "closed"
    /\ dispatched # <<>>
    /\ \E i \in DOMAIN queued_messages : queued_messages[i].id > h_enqAtStop

\* C2 as stated: when the main loop has exited after a stop(), every event
\* enqueued before stop() was dispatched exactly once.
C2_DrainCompleteness ==
    (h_stops > 0 /\ pc \in {"done", "closed"} /\ dispatched # <<>>)
        => \A id \in EnqueuedBeforeStop : TimesDispatched(id) = 1

\* C2 as amended: the events dispatched are the first events enqueued, each
\* exactly once and in order; whenever the main loop waits on the empty queue
\* every event enqueued so far has been dispatched; an event not yet
\* dispatched when stop() is called is never dispatched.
C2_DrainWhileRunning ==
    /\ \A i \in DOMAIN dispatched : dispatched[i].id = i
    /\ pc = "get" => Len(dispatched) = h_enq
    /\ h_stops > 0 => Len(dispatched) <= h_enqAtStop

C2_Witness ==
    /\ pc = "closed"
    /\ dispatched # <<>>
    /\ h_stops > 0
    /\ Len(dispatched) < h_enqAtStop

\* C3: when stop() is called before load_all has completed, main_loop returns
\* after the load step: connect() is called on no connection, the reloader
\* is not started and nothing is taken from the queue.
C3_LoadThenStop ==
    h_stopInLoad =>
        /\ pc \in {"new", "load", "done", "closed"}
        /\ \A c \in Conns : connst[c] = "idle" /\ ~connected[c]
        /\ loader # "started"
        /\ h_deq = <<>> /\ message = <<>> /\ dispatched = <<>>

C3_Witness ==
    /\ h_stopInLoad
    /\ pc = "closed"
    /\ \E i \in DOMAIN queued_messages : queued_messages[i] # StopIteration

\* C4 as stated: a call of stop() after an earlier one changes neither the
\* running flag, nor the connections, nor what was sent to them, nor the
\* contents of the queue.
C4_IdempotentStop ==
    [][(h_stops >= 1 /\ h_stops' = h_stops + 1) =>
          /\ running' = running
          /\ connected' = connected
          /\ connlog' = connlog
          /\ queued_messages' = queued_messages
          /\ message' = message]_vars

\* C5: a task that ends with an exception leaves main_loop where it is, and
\* with failed tasks around a message main_loop receives while running is
\* still dispatched.
C5_Isolation ==
    [][/\ (\E e \in EventIds : task[e] = "running" /\ task'[e] = "failed")
            => (pc' = pc /\ dispatched' = dispatched
                /\ queued_messages' = queued_messages)
       /\ ((\E e \in EventIds : task[e] = "failed")
             /\ running /\ pc = "got" /\ pc' # "got")
            => (Len(dispatched') > Len(dispatched) /\ pc' = "get")]_vars

C5_Witness ==
    /\ task[1] = "failed"
    /\ task[2] = "running"
    /\ pc = "get"
    /\ running

\* C6 as stated: a connect() that fails does not abort startup: no error
\* comes out of main_loop or run().
C6_ConnectFailureIsolation ==
    (\E c \in Conns : connst[c] = "failed") => pc \notin {"raised", "error"}

\* C7: events are dispatched in the order in which they were enqueued.
C7_FifoDispatch ==
    \A i, j \in DOMAIN dispatched :
        i < j => dispatched[i].id < dispatched[j].id

C7_Witness ==
    /\ Len(dispatched) >= 2
    /\ dispatched[1].conn # dispatched[2].conn

\* What C8 expects stop(r) to call on connection c, with the reason carried
\* by QUIT exactly when Carried(r) holds.
Expected(c, r, carried) ==
    IF connected[c]
    THEN <<[op |-> "QUIT", params |-> IF carried THEN <<r>> ELSE <<>>],
           [op |-> "stop", params |-> <<>>]>>
    ELSE <<>>

\* C8 as stated: stop(r) sends every connected connection one QUIT, carrying
\* r whenever a reason is given, and then stops it; it calls nothing on a
\* connection that is not connected.
C8_StopDisconnectsLive ==
    [][\A r \in Reasons : stop(r) =>
          \A c \in Conns :
              connlog'[c] = connlog[c] \o Expected(c, r, r # None)]_vars

\* C8 as amended: the QUIT carries r when r is a non-empty string, and has
\* no parameter when r is None or the empty string.
C8_StopDisconnectsLiveNonEmpty ==
    [][\A r \in Reasons : stop(r) =>
          \A c \in Conns :
              /\ connlog'[c] = connlog[c] \o Expected(c, r, r \notin {None, ""})
              /\ connected[c] => ~connected'[c]]_vars

C8_Witness ==
    /\ h_stops = 1
    /\ \E c, d \in Conns :
          /\ connlog[c] = <<[op |-> "QUIT", params |-> <<"bye">>],
                            [op |-> "stop", params |-> <<>>]>>
          /\ connlog[d] = <<>>

\* C9 as stated: every handler task that was started completes, also when
\* the main loop has exited and run() has closed the event loop.
C9_TasksComplete ==
    pc = "closed" => \A e \in EventIds : task[e] # "running"

\* C9 as amended: stop() cancels no handler task, and a task runs on only as
\* long as the event loop does: one still unfinished when run() has returned
\* stays unfinished.
C9_StopDoesNotCancel ==
    [][/\ h_stops' > h_stops => task' = task
       /\ pc \in {"closed", "error"} => task' = task]_vars

C9_Witness ==
    /\ h_stops > 0
    /\ pc = "closed"
    /\ \E e \in EventIds : task[e] = "running"

\* C10: after stop(), whatever run() was doing, the main loop exits and
\* run() returns.
C10_ShutdownTerminates ==
    (~running /\ pc # "new") ~> (pc \in {"closed", "error"})

C10_Witness ==
    /\ ~running
    /\ pc = "closed"
    /\ \E i \in DOMAIN h_deq : h_deq[i] = StopIteration

\* C11 as stated: after create_connections no two connections have the same
\* name.
C11_UniqueNames ==
    pc = "new" =>
        \A c, d \in Conns : c # d => connections[c] # connections[d]

\* The rule as C18 states it: the surrounding spaces stripped, each run of
\* spaces collapsed to one underscore, every other character outside
\* [A-Za-z0-9_] dropped.
RECURSIVE StripLeft(_), Collapse(_)

StripLeft(n) == IF n # <<>> /\ Head(n) = " " THEN StripLeft(Tail(n)) ELSE n

Reverse(n) == [i \in 1..Len(n) |-> n[Len(n) + 1 - i]]

Strip(n) == Reverse(StripLeft(Reverse(StripLeft(n))))

Collapse(n) ==
    IF n = <<>> THEN <<>>
    ELSE IF Head(n) = " "
         THEN <<"_">> \o Collapse(StripLeft(n))
         ELSE <<Head(n)>> \o Collapse(Tail(n))

IsWordChar(ch) == ch \in WordChars

Canonical(n) == SelectSeq(Collapse(Strip(n)), IsWordChar)

IsKept(ch) == ch \in WordChars \cup {" "}

\* Character by character: a space gives an underscore, a character of
\* [A-Za-z0-9_] itself, any other character nothing.
PerCharacter(n) == str_replace(SelectSeq(n, IsKept))

SentinelPut ==
    \/ \E i \in DOMAIN queued_messages : queued_messages[i] = StopIteration
    \/ \E i \in DOMAIN h_deq : h_deq[i] = StopIteration

\* C12: StopIteration is never passed to process(), and when main_loop is
\* given it main_loop takes nothing more from the queue and returns.
C12_SentinelNeverProcessed ==
    /\ \A i \in DOMAIN dispatched : dispatched[i] # StopIteration
    /\ \A i \in DOMAIN h_deq :
          h_deq[i] = StopIteration =>
              /\ i = Len(h_deq)
              /\ pc \in {"got", "done", "closed"}
              /\ pc = "got" => message = <<StopIteration>>

C12_Witness ==
    /\ pc = "closed"
    /\ h_deq # <<>>
    /\ h_deq[Len(h_deq)] = StopIteration
    /\ \E i \in DOMAIN queued_messages : queued_messages[i] # StopIteration

\* C13: do_restart is set only in a step that also runs the whole of stop():
\* whenever do_restart is true, running is false, the reloader is stopped
\* and StopIteration has been put; a step that changes do_restart sets it,
\* and is a call of stop().
C13_RestartStopsCleanly ==
    [][/\ do_restart' => (~running' /\ loader' = "stopped" /\ SentinelPut'
                          /\ h_stops' >= 1)
       /\ do_restart' # do_restart =>
              (do_restart' /\ h_stops' = h_stops + 1 /\ running' = FALSE)]_vars

C13_Witness ==
    /\ do_restart
    /\ h_stops = 1
    /\ pc = "closed"
    /\ \E c \in Conns : connlog[c] # <<>>

\* C15: running is true until the first stop(), only a call of stop() changes
\* it, to false, and once false it stays false.
C15_RunningMonotone ==
    [][/\ h_stops = 0 => running
       /\ running' # running =>
              (running /\ ~running' /\ h_stops' = h_stops + 1)
       /\ ~running => ~running']_vars

C15_Witness ==
    /\ ~running
    /\ h_stops = MaxStops
    /\ do_restart
    /\ pc = "closed"

\* C16: with every connection connected and the bot running, an event that
\* has been enqueued is dispatched (or the bot is stopped first) whether or
\* not the tasks of earlier events ever complete: no fairness is assumed
\* for the tasks.
C16_NonBlockingDispatch ==
    \A id \in EventIds :
        (running /\ GatherComplete /\ h_enq >= id)
            ~> (Len(dispatched) >= id \/ ~running)

C16_Witness ==
    /\ running
    /\ pc = "get"
    /\ Cardinality({e \in EventIds : task[e] = "running"}) >= 2

\* C17: no connect() is called before load_all has completed, the reloader
\* has been started when a connect() has been called, and nothing is taken
\* from the queue or dispatched before every connect() has returned.
C17_StartupOrdering ==
    /\ pc \in {"new", "load"} => \A c \in Conns : connst[c] = "idle"
    /\ (\E c \in Conns : connst[c] # "idle") => loader # "new"
    /\ (h_deq # <<>> \/ dispatched # <<>> \/ pc \in {"get", "got"})
           => \A c \in Conns : connst[c] = "connected"

C17_Witness ==
    /\ pc = "gather"
    /\ running
    /\ loader = "started"
    /\ queued_messages # <<>>
    /\ \E c, d \in Conns : connst[c] = "connected" /\ connst[d] = "connecting"

\* C19 as stated: when the main loop has exited after a stop(), no
\* connection is connected.
C19_NoLiveConnectionAfterShutdown ==
    (h_stops > 0 /\ pc \in {"done", "closed"})
        => \A c \in Conns : ~connected[c]

\* C20: once stop() has been called the plugin reloader is stopped and is
\* never started.
C20_ReloaderStaysStopped == h_stops > 0 => loader = "stopped"

C20_Witness ==
    /\ h_stops > 0
    /\ ~h_stopInLoad
    /\ pc = "closed"
    /\ loader = "stopped"

\* C14: no two outstanding invocations of the singlethread handler have the
\* same (connection, handler) key.
C14_SinglethreadExclusion ==
    \A e, f \in singlethread_hook_futures : e # f => KeyOf(e) # KeyOf(f)

C14_Witness ==
    \E e, f \in EventIds :
        /\ e \in singlethread_hook_futures
        /\ task[e] = "running"
        /\ task[f] = "dropped"

====
